---- MODULE Spec2Model ----
(***************************************************************************)
(* Model of the category, product and review routers of the FastAPI shop   *)
(* (src/app/routers/categories.py, products.py, reviews.py).               *)
(*                                                                         *)
(* The three tables are sequences indexed by the autoincrement primary     *)
(* key.  A handler with a single commit is one atomic action.  The two     *)
(* review mutations commit twice (the review, then the rating) and await   *)
(* the database in between, so each is three steps: commit the review,     *)
(* read the average, write the rating.  A request between its commits is   *)
(* an element of the bag `inflight`.  Spec lets the requests interleave;   *)
(* SeqSpec admits a new request only when none is in flight.               *)
(*                                                                         *)
(* A rating is an exact fraction <<numerator, denominator>> in lowest      *)
(* terms; `last` is the response of the most recently answered request.    *)
(***************************************************************************)
EXTENDS Integers, Sequences, FiniteSets, Bags, TLC

VARIABLES categories, products, reviews, inflight, last

vars == <<categories, products, reviews, inflight, last>>

\* ------------------------------------------------------------------ bounds
MaxCategories == 2
MaxProducts == 1
MaxReviews == 2
MaxInFlight == 2

\* ------------------------------------------------------- inputs and schemas
None == 0
MinGrade == 1
MaxGrade == 5

Names == {"a"}
Sellers == {"s1", "s2"}
Buyers == {"b1"}
GradeInputs == {MinGrade - 1, MinGrade, MaxGrade, MaxGrade + 1}

CategoryIds == 1..MaxCategories
ProductIds == 1..MaxProducts
ReviewIds == 1..MaxReviews

\* CategoryCreate: name is required, parent_id is optional (absent = unset).
CategoryCreate ==
    [name : Names] \cup [name : Names, parent_id : {None} \cup CategoryIds]

\* ProductCreate: the client-settable fields; neither rating nor is_active.
ProductCreate == [name : Names, category_id : CategoryIds]

\* ReviewCreate: product reference and grade.
ReviewCreate == [product_id : ProductIds, grade : GradeInputs]

\* category.parent_id: the field's value, None when the payload leaves it unset.
ParentOf(category) ==
    IF "parent_id" \in DOMAIN category THEN category.parent_id ELSE None

\* ---------------------------------------------------------------- ratings
RECURSIVE GCD(_, _)
GCD(a, b) == IF b = 0 THEN a ELSE GCD(b, a % b)

Frac(n, d) == <<n \div GCD(n, d), d \div GCD(n, d)>>

Zero == <<0, 1>>

DefaultRating == Zero

RECURSIVE SumGrades(_)
SumGrades(S) ==
    IF S = {} THEN 0
    ELSE LET i == CHOOSE x \in S : TRUE
         IN reviews[i].grade + SumGrades(S \ {i})

\* The rows the aggregate query of update_product_rating selects.
ActiveReviewsOf(product_id) ==
    {i \in 1..Len(reviews) :
        reviews[i].product_id = product_id /\ reviews[i].is_active}

\* select avg(grade) ... ; result.scalar() or 0.0
AvgRating(product_id) ==
    LET S == ActiveReviewsOf(product_id)
    IN IF S = {} THEN Zero ELSE Frac(SumGrades(S), Cardinality(S))

\* ---------------------------------------------------------------- lookups
\* select(CategoryModel).where(id == ..., is_active.is_(True)) finds a row
ActiveCategory(id) ==
    id \in 1..Len(categories) /\ categories[id].is_active

\* select(ProductModel).where(id == ..., is_active.is_(True)) finds a row
ActiveProduct(id) ==
    id \in 1..Len(products) /\ products[id].is_active

\* select(ProductModel).where(ProductModel.id == product_id) finds a row
ExistingProduct(id) == id \in 1..Len(products)

\* select(ReviewModel).where(id == ..., is_active.is_(True)) finds a row
ActiveReview(id) ==
    id \in 1..Len(reviews) /\ reviews[id].is_active

\* update(Model).where(id == ...).values(**values): overwrite the given columns
Apply(row, values) ==
    [f \in DOMAIN row |-> IF f \in DOMAIN values THEN values[f] ELSE row[f]]

\* What the caller of handler op gets: the status code and the detail message.
Response(op, status, detail) ==
    [op |-> op, status |-> status, detail |-> detail]

\* A review request that has committed its review row and now runs
\* update_product_rating(db, product_id).
RatingCall(op, product_id) ==
    [op |-> op, pc |-> "read_avg", product_id |-> product_id, avg |-> Zero]

Put(r) == inflight (+) SetToBag({r})

Take(r) == inflight (-) SetToBag({r})

InFlight == BagToSet(inflight)

\* No request is between its two commits.
AllIdle == inflight = EmptyBag

\* ------------------------------------------------------------------- Init
Init ==
    /\ categories = <<>>
    /\ products = <<>>
    /\ reviews = <<>>
    /\ inflight = EmptyBag
    /\ last = Response("none", 0, "")

\* ------------------------------------------------------------- categories
create_category(category) ==
    LET parent_id == ParentOf(category)
    IN /\ IF parent_id /= None /\ ~ActiveCategory(parent_id)
          THEN /\ last' = Response("create_category", 400,
                                   "Parent category not found")
               /\ UNCHANGED categories
          ELSE /\ Len(categories) < MaxCategories
               /\ categories' = Append(categories,
                     [name |-> category.name, parent_id |-> parent_id,
                      is_active |-> TRUE])
               /\ last' = Response("create_category", 201, "")
       /\ UNCHANGED <<products, reviews, inflight>>

\* Mutant: the self-reference test is missing.
NeverOwnParent(parent_id, category_id) == FALSE

\* parent.id == category_id
IsOwnParent(parent_id, category_id) == parent_id = category_id

update_category(category_id, category) ==
    LET parent_id == ParentOf(category)
    IN /\ IF ~ActiveCategory(category_id)
          THEN /\ last' = Response("update_category", 404,
                                   "Category not found")
               /\ UNCHANGED categories
          ELSE IF parent_id /= None /\ ~ActiveCategory(parent_id)
          THEN /\ last' = Response("update_category", 400,
                                   "Parent category not found")
               /\ UNCHANGED categories
          ELSE IF parent_id /= None /\ IsOwnParent(parent_id, category_id)
          THEN /\ last' = Response("update_category", 400,
                                   "Category cannot be its own parent")
               /\ UNCHANGED categories
          ELSE /\ categories' = [categories EXCEPT
                     ![category_id] = Apply(@, category)]
               /\ last' = Response("update_category", 200, "")
       /\ UNCHANGED <<products, reviews, inflight>>

delete_category(category_id) ==
    /\ IF ~ActiveCategory(category_id)
          THEN /\ last' = Response("delete_category", 404,
                                   "Category not found")
               /\ UNCHANGED categories
          ELSE /\ categories' = [categories EXCEPT
                     ![category_id] = Apply(@, [is_active |-> FALSE])]
               /\ last' = Response("delete_category", 200, "")
    /\ UNCHANGED <<products, reviews, inflight>>

\* --------------------------------------------------------------- products
create_product(product, current_user) ==
    /\ IF ~ActiveCategory(product.category_id)
          THEN /\ last' = Response("create_product", 400,
                                   "Category not found")
               /\ UNCHANGED products
          ELSE /\ Len(products) < MaxProducts
               /\ products' = Append(products,
                     [name |-> product.name,
                      category_id |-> product.category_id,
                      seller_id |-> current_user,
                      rating |-> DefaultRating,
                      is_active |-> TRUE])
               /\ last' = Response("create_product", 201, "")
    /\ UNCHANGED <<categories, reviews, inflight>>

get_products_by_category(category_id) ==
    /\ IF ~ActiveCategory(category_id)
          THEN last' = Response("get_products_by_category", 400,
                                "Category not found")
          ELSE last' = Response("get_products_by_category", 200, "")
    /\ UNCHANGED <<categories, products, reviews, inflight>>

get_product(product_id) ==
    /\ IF ~ActiveProduct(product_id)
          THEN last' = Response("get_product", 404,
                                "Product not found")
          ELSE last' = Response("get_product", 200, "")
    /\ UNCHANGED <<categories, products, reviews, inflight>>

\* Mutant: the UPDATE also revives the row.
UpdateValuesReviving(product) ==
    [name |-> product.name, category_id |-> product.category_id,
     is_active |-> TRUE]

\* .values(**product.model_dump()) of update_product
UpdateValues(product) ==
    [f \in DOMAIN product |-> product[f]]

\* Mutant: every seller passes the ownership test.
AnySellerOwns(row, current_user) == TRUE

\* db_product.seller_id != current_user.id, negated
IsOwner(row, current_user) == row.seller_id = current_user

update_product(product_id, product, current_user) ==
    /\ IF ~ExistingProduct(product_id)
          THEN /\ last' = Response("update_product", 404,
                                   "Product not found")
               /\ UNCHANGED products
          ELSE IF ~IsOwner(products[product_id], current_user)
          THEN /\ last' = Response("update_product", 403,
                                   "You can only update your own products")
               /\ UNCHANGED products
          ELSE IF ~ActiveCategory(product.category_id)
          THEN /\ last' = Response("update_product", 400,
                                   "Category not found")
               /\ UNCHANGED products
          ELSE /\ products' = [products EXCEPT
                     ![product_id] = Apply(@, UpdateValues(product))]
               /\ last' = Response("update_product", 200, "")
    /\ UNCHANGED <<categories, reviews, inflight>>

delete_product(product_id, current_user) ==
    /\ IF ~ActiveProduct(product_id)
          THEN /\ last' = Response("delete_product", 404,
                                   "Product not found")
               /\ UNCHANGED products
          ELSE IF ~IsOwner(products[product_id], current_user)
          THEN /\ last' = Response("delete_product", 403,
                                   "You can only delete your own products")
               /\ UNCHANGED products
          ELSE /\ products' = [products EXCEPT
                     ![product_id] = Apply(@, [is_active |-> FALSE])]
               /\ last' = Response("delete_product", 200, "")
    /\ UNCHANGED <<categories, reviews, inflight>>

get_product_reviews(product_id) ==
    /\ IF ~ActiveProduct(product_id)
          THEN last' = Response("get_product_reviews", 404,
                                "Product not found")
          ELSE last' = Response("get_product_reviews", 200, "")
    /\ UNCHANGED <<categories, products, reviews, inflight>>

\* ---------------------------------------------------------------- reviews
\* Mutant: review requests on one product are serialised.
AdmitsOnePerProduct(product_id) ==
    /\ BagCardinality(inflight) < MaxInFlight
    /\ \A r \in InFlight : r.product_id /= product_id

\* Each request runs on a database session of its own and takes no lock: it
\* is served whatever the requests in flight are doing.
Admits(product_id) == BagCardinality(inflight) < MaxInFlight

\* Mutant: the upper limit is off by one.
GradeOutOfRangeLoose(grade) == grade < MinGrade \/ grade > MaxGrade + 1

\* review.grade < 1 or review.grade > 5
GradeOutOfRange(grade) == grade < MinGrade \/ grade > MaxGrade

\* create_review up to its first commit (the review row).
create_review(review, current_user) ==
    /\ Admits(review.product_id)
    /\ IF ~ActiveProduct(review.product_id)
          THEN /\ last' = Response("create_review", 404,
                                   "Product not found")
               /\ UNCHANGED <<reviews, inflight>>
          ELSE IF GradeOutOfRange(review.grade)
          THEN /\ last' = Response("create_review", 400,
                      "The grade should be in the range from 1 to 5")
               /\ UNCHANGED <<reviews, inflight>>
          ELSE /\ Len(reviews) < MaxReviews
               /\ reviews' = Append(reviews,
                     [user_id |-> current_user,
                      product_id |-> review.product_id,
                      grade |-> review.grade,
                      is_active |-> TRUE])
               /\ inflight' = Put(RatingCall("create_review",
                                             review.product_id))
               /\ UNCHANGED last
    /\ UNCHANGED <<categories, products>>

\* delete_review up to its first commit (the review row).
delete_review(review_id) ==
    /\ Admits(IF review_id \in 1..Len(reviews)
              THEN reviews[review_id].product_id ELSE 0)
    /\ IF ~ActiveReview(review_id)
          THEN /\ last' = Response("delete_review", 404,
                                   "Review not found")
               /\ UNCHANGED <<reviews, inflight>>
          ELSE /\ reviews' = [reviews EXCEPT
                     ![review_id] = Apply(@, [is_active |-> FALSE])]
               /\ inflight' = Put(RatingCall("delete_review",
                                             reviews[review_id].product_id))
               /\ UNCHANGED last
    /\ UNCHANGED <<categories, products>>

\* update_product_rating, the aggregate query.
read_average(r) ==
    /\ r.pc = "read_avg"
    /\ inflight' = Take(r) (+) SetToBag({[r EXCEPT
                       !.pc = "write", !.avg = AvgRating(r.product_id)]})
    /\ UNCHANGED <<categories, products, reviews, last>>

\* Mutant: the rating of a soft-deleted product is left alone.
RatedRowActiveOnly(row, avg_rating) ==
    IF row.is_active THEN Apply(row, [rating |-> avg_rating]) ELSE row

\* product = db.get(ProductModel, product_id); product.rating = avg_rating
RatedRow(row, avg_rating) == Apply(row, [rating |-> avg_rating])

\* update_product_rating, the write and its commit; then the handler returns.
write_rating(r) ==
    /\ r.pc = "write"
    /\ products' = [products EXCEPT
          ![r.product_id] = RatedRow(@, r.avg)]
    /\ last' = IF r.op = "create_review"
               THEN Response("create_review", 201, "")
               ELSE Response("delete_review", 200, "Review deleted")
    /\ inflight' = Take(r)
    /\ UNCHANGED <<categories, reviews>>

\* ------------------------------------------------------------------- Next
CategoryRequest ==
    \/ \E category \in CategoryCreate : create_category(category)
    \/ \E id \in CategoryIds, category \in CategoryCreate :
          update_category(id, category)
    \/ \E id \in CategoryIds : delete_category(id)

ProductRequest ==
    \/ \E product \in ProductCreate, s \in Sellers : create_product(product, s)
    \/ \E id \in CategoryIds : get_products_by_category(id)
    \/ \E id \in ProductIds : get_product(id)
    \/ \E id \in ProductIds, product \in ProductCreate, s \in Sellers :
          update_product(id, product, s)
    \/ \E id \in ProductIds, s \in Sellers : delete_product(id, s)
    \/ \E id \in ProductIds : get_product_reviews(id)

ReviewRequest ==
    \/ \E review \in ReviewCreate, b \in Buyers : create_review(review, b)
    \/ \E id \in ReviewIds : delete_review(id)

RatingStep ==
    \/ \E r \in InFlight : read_average(r)
    \/ \E r \in InFlight : write_rating(r)

\* Requests are served concurrently.
Next ==
    \/ CategoryRequest
    \/ ProductRequest
    \/ ReviewRequest
    \/ RatingStep

Spec == Init /\ [][Next]_vars

\* Requests are served one at a time.
SeqNext ==
    \/ AllIdle /\ CategoryRequest
    \/ AllIdle /\ ProductRequest
    \/ AllIdle /\ ReviewRequest
    \/ RatingStep

SeqSpec == Init /\ [][SeqNext]_vars

\* ----------------------------------------------------------------- claims
\* The mean of the active reviews of a product, folded over the reviews table
\* row by row: <<sum of grades, number of rows>>.
RECURSIVE GradeTotals(_, _)
GradeTotals(product_id, n) ==
    IF n = 0 THEN <<0, 0>>
    ELSE LET rest == GradeTotals(product_id, n - 1)
         IN IF reviews[n].product_id = product_id /\ reviews[n].is_active
            THEN <<rest[1] + reviews[n].grade, rest[2] + 1>>
            ELSE rest

\* rating = sum / count as fractions, and rating = 0 when there is no row.
IsMeanGrade(rating, product_id) ==
    LET t == GradeTotals(product_id, Len(reviews))
    IN IF t[2] = 0
       THEN rating[1] = 0
       ELSE rating[2] > 0 /\ rating[1] * t[2] = t[1] * rating[2]

HasReviews(product_id) ==
    \E i \in 1..Len(reviews) : reviews[i].product_id = product_id

\* C1 (as claimed): in every reachable state, the states between the two
\* commits of a review request included, every product's rating is the mean
\* grade of its active reviews, and 0 when it has none.
C1_RatingAlwaysMean ==
    \A p \in 1..Len(products) : IsMeanGrade(products[p].rating, p)

\* C2: when requests are served one at a time, whenever no request is in
\* flight every product's rating, of a soft-deleted product too, is the mean
\* grade of its active reviews, and 0 when it has none.
C2_SequentialRatingIsMean ==
    AllIdle => \A p \in 1..Len(products) : IsMeanGrade(products[p].rating, p)

\* C2 witness: the request answered last soft-deleted the last active review of
\* a product that was already soft-deleted, and the rating is back at 0.
C2_Witness ==
    /\ AllIdle
    /\ last.op = "delete_review" /\ last.status = 200
    /\ \E p \in 1..Len(products) :
          /\ ~products[p].is_active
          /\ HasReviews(p)
          /\ ActiveReviewsOf(p) = {}
          /\ products[p].rating = Zero

IsSelfParentError(response) ==
    /\ response.op = "update_category"
    /\ response.status = 400
    /\ response.detail = "Category cannot be its own parent"

\* C3 (as claimed): update_category(C.id, parent_id = C.id) fails with
\* 'Category cannot be its own parent' and leaves C unchanged, for every
\* category C ever created, active or soft-deleted.
C3_SelfParentAlwaysRejected ==
    [][\A c \in 1..Len(categories) : \A category \in CategoryCreate :
          (ParentOf(category) = c /\ update_category(c, category))
             => (IsSelfParentError(last') /\ categories' = categories)]_vars

\* C3 (amended): update_category(C.id, parent_id = C.id) leaves C unchanged
\* and fails with 'Category cannot be its own parent' when C is active, with
\* 404 'Category not found' when C is soft-deleted.
C3_SelfParentRejected ==
    [][\A c \in 1..Len(categories) : \A category \in CategoryCreate :
          (ParentOf(category) = c /\ update_category(c, category))
             => /\ categories' = categories
                /\ IF categories[c].is_active
                   THEN IsSelfParentError(last')
                   ELSE last' = Response("update_category", 404,
                                         "Category not found")]_vars

\* C3 witness: a self-parenting update has been answered with the error.
C3_Witness == IsSelfParentError(last)

\* C4 (as claimed): for every existing product P, active or soft-deleted, and
\* every seller S other than P's, update_product and delete_product fail with
\* 403 whatever the payload and leave P unchanged.
C4_NonOwnerAlwaysForbidden ==
    [][\A p \in 1..Len(products) : \A s \in Sellers \ {products[p].seller_id} :
          /\ \A product \in ProductCreate :
                update_product(p, product, s)
                   => (last'.status = 403 /\ products' = products)
          /\ delete_product(p, s)
                => (last'.status = 403 /\ products' = products)]_vars

\* C4 (amended): for every existing product P and every seller S other than
\* P's, P is left unchanged; update_product fails with 403 whatever the
\* payload, whether P is active or soft-deleted; delete_product fails with 403
\* when P is active and with 404 'Product not found' when P is soft-deleted.
C4_NonOwnerRejected ==
    [][\A p \in 1..Len(products) : \A s \in Sellers \ {products[p].seller_id} :
          /\ \A product \in ProductCreate :
                update_product(p, product, s)
                   => /\ products' = products
                      /\ last' = Response("update_product", 403,
                                    "You can only update your own products")
          /\ delete_product(p, s)
                => /\ products' = products
                   /\ IF products[p].is_active
                      THEN last' = Response("delete_product", 403,
                                     "You can only delete your own products")
                      ELSE last' = Response("delete_product", 404,
                                     "Product not found")]_vars

\* C4 witness: update_product on a soft-deleted product was refused with 403.
C4_Witness ==
    /\ last.op = "update_product" /\ last.status = 403
    /\ Len(products) > 0
    /\ \A p \in 1..Len(products) : ~products[p].is_active

IsGradeError(response) ==
    /\ response.op = "create_review"
    /\ response.status = 400
    /\ response.detail = "The grade should be in the range from 1 to 5"

\* C5 (as claimed): a create_review whose grade is outside 1..5 fails with the
\* grade error whatever product it names (active, soft-deleted or missing),
\* adds no review and changes no rating.
C5_BadGradeAlwaysInvalidGrade ==
    [][\A review \in ReviewCreate, b \in Buyers :
          (review.grade \notin MinGrade..MaxGrade /\ create_review(review, b))
             => /\ IsGradeError(last')
                /\ reviews' = reviews /\ products' = products]_vars

\* C5 (amended): a create_review whose grade is outside 1..5 adds no review,
\* changes no rating and starts no rating update; it fails with the grade
\* error when the product is active, and with 404 'Product not found' when the
\* product is soft-deleted or missing.
C5_BadGradeRejected ==
    [][\A review \in ReviewCreate, b \in Buyers :
          (review.grade \notin MinGrade..MaxGrade /\ create_review(review, b))
             => /\ reviews' = reviews /\ products' = products
                /\ inflight' = inflight
                /\ IF review.product_id \in 1..Len(products)
                      /\ products[review.product_id].is_active
                   THEN IsGradeError(last')
                   ELSE last' = Response("create_review", 404,
                                         "Product not found")]_vars

\* C5 witness: a review has been refused for its grade.
C5_Witness == IsGradeError(last)

\* C6 (as claimed): every active category whose parent is set has a parent
\* that is another category and is currently active.
C6_ParentActive ==
    \A c \in 1..Len(categories) :
       (categories[c].is_active /\ categories[c].parent_id /= None)
          => /\ categories[c].parent_id /= c
             /\ categories[c].parent_id \in 1..Len(categories)
             /\ categories[categories[c].parent_id].is_active

\* C7 (as claimed): every active product references a category that is
\* currently active.
C7_ProductCategoryActive ==
    \A p \in 1..Len(products) :
       products[p].is_active
          => /\ products[p].category_id \in 1..Len(categories)
             /\ categories[products[p].category_id].is_active

\* C8: soft deletion is permanent: no step sets is_active of a soft-deleted
\* category, product or review back to true (and no row disappears).
C8_SoftDeletePermanent ==
    [][/\ \A c \in 1..Len(categories) :
             ~categories[c].is_active
                => (c <= Len(categories') /\ ~categories'[c].is_active)
       /\ \A p \in 1..Len(products) :
             ~products[p].is_active
                => (p <= Len(products') /\ ~products'[p].is_active)
       /\ \A r \in 1..Len(reviews) :
             ~reviews[r].is_active
                => (r <= Len(reviews') /\ ~reviews'[r].is_active)]_vars

\* C8 witness: update_product has succeeded on a product that is soft-deleted.
C8_Witness ==
    /\ last.op = "update_product" /\ last.status = 200
    /\ Len(products) > 0
    /\ \A p \in 1..Len(products) : ~products[p].is_active

\* C9 (as claimed): every operation called on the id of a soft-deleted
\* category, product or review fails with an error and modifies none of the
\* entity's fields.
C9_SoftDeletedIsMissing ==
    [][/\ \A c \in 1..Len(categories) :
             ~categories[c].is_active =>
                /\ \A category \in CategoryCreate :
                      update_category(c, category)
                         => (last'.status >= 400 /\ categories'[c] = categories[c])
                /\ delete_category(c)
                      => (last'.status >= 400 /\ categories'[c] = categories[c])
                /\ get_products_by_category(c) => last'.status >= 400
       /\ \A p \in 1..Len(products) :
             ~products[p].is_active =>
                /\ get_product(p) => last'.status >= 400
                /\ get_product_reviews(p) => last'.status >= 400
                /\ \A s \in Sellers :
                      /\ \A product \in ProductCreate :
                            update_product(p, product, s)
                               => (last'.status >= 400 /\ products'[p] = products[p])
                      /\ delete_product(p, s)
                            => (last'.status >= 400 /\ products'[p] = products[p])
                /\ \A b \in Buyers, g \in GradeInputs :
                      create_review([product_id |-> p, grade |-> g], b)
                         => (last'.status >= 400 /\ reviews' = reviews)
       /\ \A r \in 1..Len(reviews) :
             (~reviews[r].is_active /\ delete_review(r))
                => (last'.status >= 400 /\ reviews'[r] = reviews[r])]_vars

\* C10: nothing serialises the review requests on a product: while a request
\* is between the commit of its review and the write of the rating, another
\* request can still commit a review mutation on the same product.
C10_NoLockOnRating ==
    \A r \in InFlight :
       BagCardinality(inflight) < MaxInFlight =>
          \A i \in ActiveReviewsOf(r.product_id) :
             ENABLED (delete_review(i) /\ reviews' /= reviews)

\* C10 witness (the lost update): both requests have completed, none is in
\* flight, and a product's rating is not the mean grade of its active reviews.
C10_Witness ==
    /\ AllIdle
    /\ \E p \in 1..Len(products) : ~IsMeanGrade(products[p].rating, p)

====
